---- MODULE Spec2Model ----
(***************************************************************************)
(* Academic Progress Tracker (src/app.tsx): the grade conversions, the     *)
(* average aggregator and the form / persistence handlers of App.          *)
(*                                                                         *)
(* JavaScript values are modelled as follows.                              *)
(*   - An object is a record; an absent property is a field that is not    *)
(*     in the record's DOMAIN.  A null assignment grade is an absent       *)
(*     "grade" field (the code only ever reads it through `?? 0`).         *)
(*   - A real number that is the quotient of two integers is the record    *)
(*     [num, den] with den > 0; comparisons cross-multiply.                *)
(*   - A value whose type matters is tagged: [type |-> "number", value],   *)
(*     [type |-> "function"], [type |-> "undefined"], [type |-> "NaN"].    *)
(*   - A string that the code formats or parses is a sequence of           *)
(*     one-character strings.                                              *)
(***************************************************************************)
EXTENDS Integers, Sequences, FiniteSets, TLC

VARIABLES
    \* App's state (useState)
    selectedYear, selectedSemester, viewMode, progressData,
    formYear, formSemester, isEditing, editId,
    \* the "courses" collection of the document store and its next document id
    store, nextId,
    \* the asynchronous handlers in flight, in the order they were started
    tasks,
    \* the number of mutating user actions the run may still start, and the
    \* number of them that have run to their end after a successful reload
    ops, ended,
    \* a function under test: its arguments and its result
    arg, ret

uiVars == <<selectedYear, selectedSemester, viewMode>>
formVars == <<formYear, formSemester>>
editVars == <<isEditing, editId>>
dbVars == <<store, nextId>>
runVars == <<ops, ended>>
appVars == <<uiVars, progressData, formVars, editVars, dbVars, tasks, runVars>>
calcVars == <<arg, ret>>
vars == <<appVars, calcVars>>

(***************************************************************************)
(* Bounds.                                                                 *)
(***************************************************************************)
\* function-level checks
PctBelow == 5
PctAbove == 150
MaxAssignments == 2
MaxEntries == 2
MaxChartEntries == 3
\* App: assignments in the form, mutating user actions per run
MaxFormAssignments == 1
MaxOps == 1

-----------------------------------------------------------------------------
(* Small helpers *)

Chars(s) ==
    CASE s = "N/A" -> <<"N", "/", "A">>
      [] s = "NaN" -> <<"N", "a", "N">>

Number(n) == [type |-> "number", value |-> n]
NaN == [type |-> "NaN"]
Undefined == [type |-> "undefined"]
FunctionObject == [type |-> "function"]

-----------------------------------------------------------------------------
(* Grade converter *)

\* The table with the values of "C+" and "C" exchanged.
letterToNumericTable_swapped ==
    [k \in {"A+", "A", "A-", "B+", "B", "C+", "C", "D+", "D", "E", "F", "ABS", "EIN"} |->
        CASE k = "A+" -> 10
          [] k = "A" -> 9
          [] k = "A-" -> 8
          [] k = "B+" -> 7
          [] k = "B" -> 6
          [] k = "C+" -> 4
          [] k = "C" -> 5
          [] k = "D+" -> 3
          [] k = "D" -> 2
          [] k = "E" -> 1
          [] k = "F" -> 0
          [] k = "ABS" -> 0
          [] k = "EIN" -> 0]

\* The own properties of the object literal.
letterToNumericTable ==
    [k \in {"A+", "A", "A-", "B+", "B", "C+", "C", "D+", "D", "E", "F", "ABS", "EIN"} |->
        CASE k = "A+" -> 10
          [] k = "A" -> 9
          [] k = "A-" -> 8
          [] k = "B+" -> 7
          [] k = "B" -> 6
          [] k = "C+" -> 5
          [] k = "C" -> 4
          [] k = "D+" -> 3
          [] k = "D" -> 2
          [] k = "E" -> 1
          [] k = "F" -> 0
          [] k = "ABS" -> 0
          [] k = "EIN" -> 0]

\* letterToNumeric is a plain object literal, so a property read also finds
\* the methods it inherits from Object.prototype.
ObjectPrototypeKeys ==
    {"constructor", "hasOwnProperty", "isPrototypeOf", "propertyIsEnumerable",
     "toLocaleString", "toString", "valueOf"}

\* letterToNumeric[key]
letterToNumeric(key) ==
    IF key \in DOMAIN letterToNumericTable THEN Number(letterToNumericTable[key])
    ELSE IF key \in ObjectPrototypeKeys THEN FunctionObject
    ELSE Undefined

\* v ?? 0
OrZero(v) == IF v.type = "undefined" THEN Number(0) ELSE v

\* percentage >= k
AtLeast(percentage, k) == percentage.num >= k * percentage.den

\* The ladder with an exclusive bound on its first rung.
percentageToLetter_exclusive(percentage) ==
    IF percentage.num > 90 * percentage.den THEN "A+"
    ELSE IF AtLeast(percentage, 85) THEN "A"
    ELSE IF AtLeast(percentage, 80) THEN "A-"
    ELSE IF AtLeast(percentage, 75) THEN "B+"
    ELSE IF AtLeast(percentage, 70) THEN "B"
    ELSE IF AtLeast(percentage, 65) THEN "C+"
    ELSE IF AtLeast(percentage, 60) THEN "C"
    ELSE IF AtLeast(percentage, 55) THEN "D+"
    ELSE IF AtLeast(percentage, 50) THEN "D"
    ELSE IF AtLeast(percentage, 40) THEN "E"
    ELSE "F"

percentageToLetter(percentage) ==
    IF AtLeast(percentage, 90) THEN "A+"
    ELSE IF AtLeast(percentage, 85) THEN "A"
    ELSE IF AtLeast(percentage, 80) THEN "A-"
    ELSE IF AtLeast(percentage, 75) THEN "B+"
    ELSE IF AtLeast(percentage, 70) THEN "B"
    ELSE IF AtLeast(percentage, 65) THEN "C+"
    ELSE IF AtLeast(percentage, 60) THEN "C"
    ELSE IF AtLeast(percentage, 55) THEN "D+"
    ELSE IF AtLeast(percentage, 50) THEN "D"
    ELSE IF AtLeast(percentage, 40) THEN "E"
    ELSE "F"

-----------------------------------------------------------------------------
(* Average aggregator *)

\* a.grade ?? 0
GradeOrZero(a) == IF "grade" \in DOMAIN a THEN a.grade ELSE 0

\* The total weight of the graded assignments only.
RECURSIVE TotalWeight_gradedOnly(_)
TotalWeight_gradedOnly(assignments) ==
    IF assignments = <<>> THEN 0
    ELSE TotalWeight_gradedOnly(SubSeq(assignments, 1, Len(assignments) - 1))
         + (IF "grade" \in DOMAIN assignments[Len(assignments)]
            THEN assignments[Len(assignments)].weight ELSE 0)

\* assignments.reduce((sum, a) => sum + a.weight, 0)
RECURSIVE TotalWeight(_)
TotalWeight(assignments) ==
    IF assignments = <<>> THEN 0
    ELSE TotalWeight(SubSeq(assignments, 1, Len(assignments) - 1))
         + assignments[Len(assignments)].weight

\* assignments.reduce((sum, a) => sum + ((a.grade ?? 0) * a.weight), 0)
RECURSIVE WeightedSum(_)
WeightedSum(assignments) ==
    IF assignments = <<>> THEN 0
    ELSE WeightedSum(SubSeq(assignments, 1, Len(assignments) - 1))
         + GradeOrZero(assignments[Len(assignments)]) * assignments[Len(assignments)].weight

\* totalWeight > 0 ? weightedSum / totalWeight : 0
AvgPercentage(assignments) ==
    IF TotalWeight(assignments) > 0
    THEN [num |-> WeightedSum(assignments), den |-> TotalWeight(assignments)]
    ELSE [num |-> 0, den |-> 1]

computeEntryNumeric(entry) ==
    IF entry.entryType = "final"
    THEN LET key == IF "finalGrade" \in DOMAIN entry /\ entry.finalGrade # ""
                    THEN entry.finalGrade ELSE "F"
         IN  OrZero(letterToNumeric(key))
    ELSE LET assignments == IF "assignments" \in DOMAIN entry THEN entry.assignments ELSE <<>>
             computedLetter == percentageToLetter(AvgPercentage(assignments))
         IN  OrZero(letterToNumeric(computedLetter))

\* entry.credits || 3
Credits(entry) == IF "credits" \in DOMAIN entry /\ entry.credits # 0 THEN entry.credits ELSE 3

\* a * b on JavaScript values: a function object converts to NaN.
Times(a, b) ==
    IF a.type = "number" /\ b.type = "number" THEN Number(a.value * b.value) ELSE NaN

\* a + b on JavaScript numbers
Plus(a, b) ==
    IF a.type = "number" /\ b.type = "number" THEN Number(a.value + b.value) ELSE NaN

\* The decimal digits of a natural number.
RECURSIVE Digits(_)
Digits(n) ==
    LET d == <<"0", "1", "2", "3", "4", "5", "6", "7", "8", "9">>[(n % 10) + 1]
    IN  IF n < 10 THEN <<d>> ELSE Append(Digits(n \div 10), d)

\* (num / den).toFixed(2) for num >= 0 and den > 0: the quotient rounded to
\* the nearest hundredth, a tie going to the larger value.  (A tie is an odd
\* multiple of 1/200; with the denominators reached here it is a multiple of
\* 1/8 and so an exact double, which toFixed rounds up.)
toFixed2(num, den) ==
    LET hundredths == (200 * num + den) \div (2 * den)
    IN  Digits(hundredths \div 100) \o <<".">> \o
        Digits((hundredths % 100) \div 10) \o Digits(hundredths % 10)

\* The forEach loop of computeAverageCGPA over entries[1..n].
RECURSIVE TotalWeighted(_)
TotalWeighted(entries) ==
    IF entries = <<>> THEN Number(0)
    ELSE Plus(TotalWeighted(SubSeq(entries, 1, Len(entries) - 1)),
              Times(computeEntryNumeric(entries[Len(entries)]),
                    Number(Credits(entries[Len(entries)]))))

RECURSIVE TotalCredits(_)
TotalCredits(entries) ==
    IF entries = <<>> THEN 0
    ELSE TotalCredits(SubSeq(entries, 1, Len(entries) - 1)) + Credits(entries[Len(entries)])

computeAverageCGPA(entries) ==
    IF Len(entries) = 0 THEN Chars("N/A")
    ELSE IF TotalWeighted(entries).type = "number"
         THEN toFixed2(TotalWeighted(entries).value, TotalCredits(entries))
         ELSE Chars("NaN")


-----------------------------------------------------------------------------
(* App: the document store *)

NoId == 0

NotCalled == [fn |-> "none"]

\* getDocs: the documents in document-id order, each as { id, ...data }.
Listing(st) ==
    LET ids == DOMAIN st
        nth(k) == CHOOSE i \in ids : Cardinality({j \in ids : j < i}) = k - 1
    IN  [k \in 1 .. Cardinality(ids) |-> st[nth(k)] @@ [id |-> nth(k)]]

\* An update that never reaches the document.
Updated_dropped(st, id, courseEntry) == st

\* updateDoc(docRef, courseEntry): the fields of courseEntry are written into
\* the document; a field the document has and courseEntry lacks is kept.
Updated(st, id, courseEntry) ==
    [i \in DOMAIN st |-> IF i = id THEN courseEntry @@ st[i] ELSE st[i]]

\* deleteDoc(docRef)
Deleted(st, id) == [i \in DOMAIN st \ {id} |-> st[i]]

-----------------------------------------------------------------------------
(* App: what the user can enter *)

Years == {"2024"}
Semesters == {"Fall"}
CourseInputs == {"CSC1010"}
GoalGradeInputs == {"A"}
FinalGradeInputs == {"", "A"}

\* The assignments handleAddAssignment accepts (a name, a weight > 0, a grade
\* or none) among the ones entered here.  (Ungraded assignments are among the
\* arguments of the function-level specification.)
FormAssignments ==
    { [name |-> "hw", weight |-> 50, grade |-> 80] }

\* pattern="[A-Za-z]{3}[0-9]{4}" on the inputs entered here
MatchesCoursePattern(s) == s \in {"CSC1010"}

\* The grade pattern on the inputs entered here: its alternatives without an
\* escape sequence (A, B, C, D, E, F, ABS, EIN).
MatchesGradePattern(s) == s \in {"A", "B", "C", "D", "E", "F", "ABS", "EIN"}

\* The fields of the form that only handleFormSubmit reads (the course code,
\* the goal grade, the entry type, the final grade and the assignment list)
\* are its arguments: whatever an earlier handler left in them, the user can
\* overwrite every one of them while the form is shown, so a submission can
\* carry any combination that passes the browser's validation.
FormContents ==
    {[course |-> c, goalGrade |-> g, entryType |-> "final", finalGrade |-> f] :
        c \in CourseInputs, g \in GoalGradeInputs, f \in FinalGradeInputs}
    \cup
    {[course |-> c, goalGrade |-> g, entryType |-> "scale", currentAssignments |-> as] :
        c \in CourseInputs, g \in GoalGradeInputs,
        as \in UNION {[1 .. k -> FormAssignments] : k \in 0 .. MaxFormAssignments}}

-----------------------------------------------------------------------------
(* App: initial state *)

\* What earlier sessions may have left in the collection.
InitialStores ==
    { <<>>,
      1 :> [course |-> "CSC1010", year |-> "2024", semester |-> "Fall",
            goalGrade |-> "A", entryType |-> "final", credits |-> 3,
            finalGrade |-> "A"] }

\* A handler in flight.  pc is the call it awaits ("write": addDoc, updateDoc
\* or deleteDoc; "load": getDocs inside loadCourses) or "set" when
\* loadCourses has returned `courses` and the handler is about to resume.
\* before / wrote / loaded / clean record the handler's history: progressData
\* of the render it was started from, whether its write and its reload
\* succeeded, and whether no other handler has written to its document since
\* its own write.
Task(kind, pc, id, entry) ==
    [kind |-> kind, pc |-> pc, id |-> id, entry |-> entry, courses |-> <<>>,
     before |-> progressData, wrote |-> FALSE, loaded |-> FALSE, clean |-> TRUE]

NoEntry == [entryType |-> "none"]

AppStart ==
    /\ selectedYear = "" /\ selectedSemester = "" /\ viewMode = "thisSemester"
    /\ progressData = <<>>
    /\ formYear = "" /\ formSemester = ""
    /\ isEditing = FALSE /\ editId = NoId
    /\ store = <<>> /\ nextId = 1
    /\ tasks = <<>>
    /\ ops = 0 /\ ended = 0

\* After the first render: the mount effect has called loadCourses.
Init ==
    /\ selectedYear = "" /\ selectedSemester = "" /\ viewMode = "thisSemester"
    /\ progressData = <<>>
    /\ formYear = "" /\ formSemester = ""
    /\ isEditing = FALSE /\ editId = NoId
    /\ store \in InitialStores /\ nextId = Cardinality(DOMAIN store) + 1
    /\ tasks = << Task("mount", "load", NoId, NoEntry) >>
    /\ ops = MaxOps /\ ended = 0
    /\ arg = [fn |-> "none"] /\ ret = NotCalled

-----------------------------------------------------------------------------
(* App: derived values of a render *)

filteredEntries ==
    IF selectedYear # "" /\ selectedSemester # ""
    THEN SelectSeq(progressData,
                   LAMBDA e : e.year = selectedYear /\ e.semester = selectedSemester)
    ELSE <<>>

entriesToShow == IF viewMode = "thisSemester" THEN filteredEntries ELSE progressData

\* {(selectedYear && selectedSemester) && <section ...>}: the form and the table
SectionsShown == selectedYear # "" /\ selectedSemester # ""

-----------------------------------------------------------------------------
(* App: a row of the course table *)

\* The row's average computed as a share of 100 instead of the total weight.
RowAvgPercentage_outOf100(entry) ==
    LET assignments == IF "assignments" \in DOMAIN entry THEN entry.assignments ELSE <<>>
    IN  IF TotalWeight(assignments) > 0
        THEN [num |-> WeightedSum(assignments), den |-> 100]
        ELSE [num |-> 0, den |-> 1]

\* const avgPercentage = totalW > 0 ? weightedSum / totalW : 0, from the
\* row's own reduce calls over entry.assignments || [].
RowAvgPercentage(entry) ==
    LET assignments == IF "assignments" \in DOMAIN entry THEN entry.assignments ELSE <<>>
    IN  IF TotalWeight(assignments) > 0
        THEN [num |-> WeightedSum(assignments), den |-> TotalWeight(assignments)]
        ELSE [num |-> 0, den |-> 1]

\* The letter in the "Current / Final Grade" cell: entry.finalGrade, or the
\* letter inside computedGrade.
RowLetter(entry) ==
    IF entry.entryType = "final"
    THEN (IF "finalGrade" \in DOMAIN entry THEN entry.finalGrade ELSE "")
    ELSE percentageToLetter(RowAvgPercentage(entry))

\* `${avgPercentage.toFixed(2)}% (${percentageToLetter(avgPercentage)})`
RowComputedGrade(entry) ==
    toFixed2(RowAvgPercentage(entry).num, RowAvgPercentage(entry).den)
    \o <<"%", " ", "(", percentageToLetter(RowAvgPercentage(entry)), ")">>

-----------------------------------------------------------------------------
(* ChartAnalytics: the chart data *)

\* `${entry.year} ${entry.semester}`
GroupKey(entry) == entry.year \o " " \o entry.semester

\* semesterGroups after the forEach over the collection: `keys` are its
\* property names in the order the properties were created, `groups` maps a
\* name to the array pushed under it.
RECURSIVE semesterGroups(_)
semesterGroups(entries) ==
    IF entries = <<>> THEN [keys |-> <<>>, groups |-> [k \in {} |-> <<>>]]
    ELSE LET prev == semesterGroups(SubSeq(entries, 1, Len(entries) - 1))
             entry == entries[Len(entries)]
             key == GroupKey(entry)
         IN  IF key \in DOMAIN prev.groups
             THEN [keys |-> prev.keys,
                   groups |-> [prev.groups EXCEPT ![key] = Append(@, entry)]]
             ELSE [keys |-> Append(prev.keys, key),
                   groups |-> (key :> <<entry>>) @@ prev.groups]

\* The property names listed newest first.
ObjectKeys_reversed(obj) ==
    [k \in 1 .. Len(obj.keys) |-> obj.keys[Len(obj.keys) + 1 - k]]

\* Object.keys(semesterGroups): array-index names in ascending order, then the
\* other names in creation order.  Every name built by GroupKey holds a space,
\* so none is an array index.
ObjectKeys(obj) == obj.keys

\* The value of a run of decimal digits.
RECURSIVE DecimalValue(_)
DecimalValue(s) ==
    IF s = <<>> THEN 0
    ELSE 10 * DecimalValue(SubSeq(s, 1, Len(s) - 1))
         + (CHOOSE d \in 0 .. 9 : Digits(d) = <<s[Len(s)]>>)

RECURSIVE PowerOfTen(_)
PowerOfTen(n) == IF n = 0 THEN 1 ELSE 10 * PowerOfTen(n - 1)

\* parseFloat(s) for an unsigned decimal numeral ("7.50", "0") and for a
\* string that does not start with one ("N/A", "NaN"): the number as the
\* quotient [num, den], or NaN.
parseFloat(s) ==
    LET isDigit(c) == \E d \in 0 .. 9 : Digits(d) = <<c>>
        points == {i \in 1 .. Len(s) : s[i] = "."}
        point == CHOOSE i \in points : \A j \in points : i <= j
    IN  IF s = <<>> \/ ~isDigit(s[1]) THEN NaN
        ELSE IF points = {} THEN Number([num |-> DecimalValue(s), den |-> 1])
        ELSE Number([num |-> DecimalValue(SubSeq(s, 1, point - 1)
                                          \o SubSeq(s, point + 1, Len(s))),
                     den |-> PowerOfTen(Len(s) - point)])

\* labels and dataValues as ChartAnalytics builds them from its props
\* progressData and totalCgpa = computeAverageCGPA(progressData).
chartData(entries) ==
    LET groups == semesterGroups(entries)
        groupKeys == ObjectKeys(groups)
        totalCgpa == computeAverageCGPA(entries)
    IN  [labels |-> groupKeys \o <<"Overall">>,
         data |-> [k \in 1 .. Len(groupKeys) |->
                      parseFloat(computeAverageCGPA(groups.groups[groupKeys[k]]))]
                  \o <<parseFloat(IF totalCgpa = Chars("N/A") THEN <<"0">> ELSE totalCgpa)>>]

-----------------------------------------------------------------------------
(* App: landing handlers *)

handleYearSelect(year) ==
    /\ selectedYear' = year
    /\ selectedSemester' = ""
    /\ UNCHANGED <<viewMode, progressData, formVars, editVars, dbVars, tasks, runVars, calcVars>>

\* The handler without its early return.
handleSemesterSelect_unguarded(semester) ==
    /\ selectedSemester' = semester
    /\ formYear' = selectedYear
    /\ formSemester' = semester
    /\ UNCHANGED <<selectedYear, viewMode, progressData, editVars, dbVars, tasks, runVars,
                   calcVars>>

\* The semester buttons are rendered only while a year is selected.
handleSemesterSelect(semester) ==
    /\ selectedYear # ""
    /\ selectedSemester' = semester
    /\ formYear' = selectedYear
    /\ formSemester' = semester
    /\ UNCHANGED <<selectedYear, viewMode, progressData, editVars, dbVars, tasks, runVars,
                   calcVars>>

setViewMode(mode) ==
    /\ SectionsShown
    /\ viewMode' = mode
    /\ UNCHANGED <<selectedYear, selectedSemester, progressData, formVars, editVars,
                   dbVars, tasks, runVars, calcVars>>

-----------------------------------------------------------------------------
(* App: the form *)

\* onChange of the year and semester selects of the form; the form is
\* rendered only while a year and a semester are selected.
setFormYear(value) ==
    /\ SectionsShown
    /\ formYear' = value
    /\ UNCHANGED <<uiVars, progressData, formSemester, editVars, dbVars, tasks, runVars,
                   calcVars>>

setFormSemester(value) ==
    /\ SectionsShown
    /\ formSemester' = value
    /\ UNCHANGED <<uiVars, progressData, formYear, editVars, dbVars, tasks, runVars,
                   calcVars>>

\* The browser's constraint validation, which precedes the submit event:
\* required course / year / semester / goal grade, and the patterns.
FormValid(form) ==
    /\ form.course # "" /\ MatchesCoursePattern(form.course)
    /\ formYear # "" /\ formSemester # ""
    /\ form.goalGrade # "" /\ MatchesGradePattern(form.goalGrade)
    /\ form.entryType = "final" =>
          (form.finalGrade = "" \/ MatchesGradePattern(form.finalGrade))

\* const newEntry = {...}; finalGrade or assignments by entry type
NewEntry(form) ==
    [course |-> form.course, year |-> formYear, semester |-> formSemester,
     goalGrade |-> form.goalGrade, entryType |-> form.entryType, credits |-> 3]
    @@ (IF form.entryType = "final"
        THEN [finalGrade |-> form.finalGrade]
        ELSE [assignments |-> form.currentAssignments])

\* handleFormSubmit up to its first await.
handleFormSubmit(form) ==
    /\ SectionsShown
    /\ FormValid(form)
    /\ formYear # "" /\ formSemester # ""
    /\ ops > 0
    /\ tasks' = Append(tasks,
                       IF isEditing /\ editId # NoId
                       THEN Task("edit", "write", editId, NewEntry(form))
                       ELSE Task("add", "write", NoId, NewEntry(form)))
    /\ ops' = ops - 1
    /\ UNCHANGED <<uiVars, progressData, formVars, editVars, dbVars, ended, calcVars>>

\* The Edit button of a row of the table.
handleEdit(id) ==
    /\ SectionsShown
    /\ \E k \in 1 .. Len(entriesToShow) : entriesToShow[k].id = id
    /\ LET courseToEdit ==
               progressData[CHOOSE k \in 1 .. Len(progressData) : progressData[k].id = id]
       IN  /\ isEditing' = TRUE
           /\ editId' = id
           /\ formYear' = courseToEdit.year
           /\ formSemester' = courseToEdit.semester
           /\ selectedYear' = courseToEdit.year
           /\ selectedSemester' = courseToEdit.semester
    /\ UNCHANGED <<viewMode, progressData, dbVars, tasks, runVars, calcVars>>

\* The Cancel button leaving editId as it is.
handleCancelEdit_keepsId ==
    /\ SectionsShown
    /\ isEditing
    /\ isEditing' = FALSE
    /\ formYear' = "" /\ formSemester' = ""
    /\ UNCHANGED <<uiVars, progressData, editId, dbVars, tasks, runVars, calcVars>>

\* The Cancel button, rendered while editing.
handleCancelEdit ==
    /\ SectionsShown
    /\ isEditing
    /\ isEditing' = FALSE
    /\ editId' = NoId
    /\ formYear' = "" /\ formSemester' = ""
    /\ UNCHANGED <<uiVars, progressData, dbVars, tasks, runVars, calcVars>>

\* The Delete button removing the row from progressData at once.
handleDelete_optimistic(id) ==
    /\ SectionsShown
    /\ \E k \in 1 .. Len(entriesToShow) : entriesToShow[k].id = id
    /\ ops > 0
    /\ tasks' = Append(tasks, Task("delete", "write", id, NoEntry))
    /\ ops' = ops - 1
    /\ progressData' = SelectSeq(progressData, LAMBDA e : e.id # id)
    /\ UNCHANGED <<uiVars, formVars, editVars, dbVars, ended, calcVars>>

\* The Delete button of a row, the confirmation accepted, up to its first await.
handleDelete(id) ==
    /\ SectionsShown
    /\ \E k \in 1 .. Len(entriesToShow) : entriesToShow[k].id = id
    /\ ops > 0
    /\ tasks' = Append(tasks, Task("delete", "write", id, NoEntry))
    /\ ops' = ops - 1
    /\ UNCHANGED <<uiVars, progressData, formVars, editVars, dbVars, ended, calcVars>>

-----------------------------------------------------------------------------
(* App: the awaited calls of the handlers in flight *)

RemoveAt(seq, i) ==
    [k \in 1 .. Len(seq) - 1 |-> IF k < i THEN seq[k] ELSE seq[k + 1]]

\* Task i has written to document id: the other handlers that wrote to it and
\* have not reloaded yet no longer see their own write alone.
Written(ts, i, id) ==
    [k \in 1 .. Len(ts) |->
        IF k # i /\ ts[k].pc = "load" /\ ts[k].wrote /\ ts[k].id = id
        THEN [ts[k] EXCEPT !.clean = FALSE]
        ELSE ts[k]]

\* saveCourse: addDoc resolves with the new document's reference.
saveCourse(i) ==
    /\ tasks[i].kind = "add" /\ tasks[i].pc = "write"
    /\ store' = (nextId :> tasks[i].entry) @@ store
    /\ nextId' = nextId + 1
    /\ tasks' = [tasks EXCEPT ![i].pc = "load", ![i].id = nextId, ![i].wrote = TRUE]
    /\ UNCHANGED <<uiVars, progressData, formVars, editVars, runVars, calcVars>>

\* updateCourseEntry: updateDoc resolves; it rejects for a missing document.
updateCourseEntry(i) ==
    /\ tasks[i].kind = "edit" /\ tasks[i].pc = "write"
    /\ tasks[i].id \in DOMAIN store
    /\ store' = Updated(store, tasks[i].id, tasks[i].entry)
    /\ tasks' = Written([tasks EXCEPT ![i].pc = "load", ![i].wrote = TRUE], i, tasks[i].id)
    /\ UNCHANGED <<uiVars, progressData, formVars, editVars, nextId, runVars, calcVars>>

\* deleteCourseEntry: deleteDoc resolves, also for a document already gone.
deleteCourseEntry(i) ==
    /\ tasks[i].kind = "delete" /\ tasks[i].pc = "write"
    /\ store' = Deleted(store, tasks[i].id)
    /\ tasks' = Written([tasks EXCEPT ![i].pc = "load", ![i].wrote = TRUE], i, tasks[i].id)
    /\ UNCHANGED <<uiVars, progressData, formVars, editVars, nextId, runVars, calcVars>>

\* addDoc, updateDoc or deleteDoc rejects: the catch block logs the error and
\* the helper returns normally.
writeFails(i) ==
    /\ tasks[i].kind \in {"add", "edit", "delete"} /\ tasks[i].pc = "write"
    /\ tasks' = [tasks EXCEPT ![i].pc = "load"]
    /\ UNCHANGED <<uiVars, progressData, formVars, editVars, dbVars, runVars, calcVars>>

\* loadCourses: getDocs resolves and the documents are collected.
loadCourses(i) ==
    /\ tasks[i].pc = "load"
    /\ tasks' = [tasks EXCEPT ![i].pc = "set", ![i].courses = Listing(store),
                              ![i].loaded = TRUE]
    /\ UNCHANGED <<uiVars, progressData, formVars, editVars, dbVars, runVars, calcVars>>

\* loadCourses: getDocs rejects; the catch block logs and returns [].
loadFails(i) ==
    /\ tasks[i].pc = "load"
    /\ tasks' = [tasks EXCEPT ![i].pc = "set", ![i].courses = <<>>]
    /\ UNCHANGED <<uiVars, progressData, formVars, editVars, dbVars, runVars, calcVars>>

\* The mount effect resumes: setProgressData(courses).
mountResumes(i) ==
    /\ tasks[i].kind = "mount" /\ tasks[i].pc = "set"
    /\ progressData' = tasks[i].courses
    /\ tasks' = RemoveAt(tasks, i)
    /\ UNCHANGED <<uiVars, formVars, editVars, dbVars, runVars, calcVars>>

\* handleFormSubmit resumes in its edit branch and runs to its end.
submitEditResumes(i) ==
    /\ tasks[i].kind = "edit" /\ tasks[i].pc = "set"
    /\ progressData' = tasks[i].courses
    /\ isEditing' = FALSE
    /\ editId' = NoId
    /\ formYear' = "" /\ formSemester' = ""
    /\ tasks' = RemoveAt(tasks, i)
    /\ ended' = ended + (IF tasks[i].loaded THEN 1 ELSE 0)
    /\ UNCHANGED <<uiVars, dbVars, ops, calcVars>>

\* handleFormSubmit resumes in its add branch and runs to its end.
submitAddResumes(i) ==
    /\ tasks[i].kind = "add" /\ tasks[i].pc = "set"
    /\ progressData' = tasks[i].courses
    /\ formYear' = "" /\ formSemester' = ""
    /\ tasks' = RemoveAt(tasks, i)
    /\ ended' = ended + (IF tasks[i].loaded THEN 1 ELSE 0)
    /\ UNCHANGED <<uiVars, editVars, dbVars, ops, calcVars>>

\* The delete handler resumes: setProgressData(courses).
deleteResumes(i) ==
    /\ tasks[i].kind = "delete" /\ tasks[i].pc = "set"
    /\ progressData' = tasks[i].courses
    /\ tasks' = RemoveAt(tasks, i)
    /\ ended' = ended + (IF tasks[i].loaded THEN 1 ELSE 0)
    /\ UNCHANGED <<uiVars, formVars, editVars, dbVars, ops, calcVars>>

Next ==
    \/ \E year \in Years : handleYearSelect(year)
    \/ \E semester \in Semesters : handleSemesterSelect(semester)
    \/ \E mode \in {"thisSemester", "allCourses"} : setViewMode(mode)
    \/ \E value \in Years : setFormYear(value)
    \/ \E value \in Semesters : setFormSemester(value)
    \/ \E form \in FormContents : handleFormSubmit(form)
    \/ \E id \in 1 .. nextId : handleEdit(id)
    \/ handleCancelEdit
    \/ \E id \in 1 .. nextId : handleDelete(id)
    \/ \E i \in 1 .. Len(tasks) : saveCourse(i)
    \/ \E i \in 1 .. Len(tasks) : updateCourseEntry(i)
    \/ \E i \in 1 .. Len(tasks) : deleteCourseEntry(i)
    \/ \E i \in 1 .. Len(tasks) : writeFails(i)
    \/ \E i \in 1 .. Len(tasks) : loadCourses(i)
    \/ \E i \in 1 .. Len(tasks) : loadFails(i)
    \/ \E i \in 1 .. Len(tasks) : mountResumes(i)
    \/ \E i \in 1 .. Len(tasks) : submitEditResumes(i)
    \/ \E i \in 1 .. Len(tasks) : submitAddResumes(i)
    \/ \E i \in 1 .. Len(tasks) : deleteResumes(i)

Spec == Init /\ [][Next]_vars

\* Two user actions in quick succession.  The mount effect has run to its end
\* and the page shows the stored collection; the user may start one action
\* more than in Spec.
RaceInit ==
    /\ selectedYear = "" /\ selectedSemester = "" /\ viewMode = "thisSemester"
    /\ formYear = "" /\ formSemester = ""
    /\ isEditing = FALSE /\ editId = NoId
    /\ store \in InitialStores /\ nextId = Cardinality(DOMAIN store) + 1
    /\ progressData = Listing(store)
    /\ tasks = <<>>
    /\ ops = MaxOps + 1 /\ ended = 0
    /\ arg = [fn |-> "none"] /\ ret = NotCalled

RaceNext ==
    \/ \E year \in Years : handleYearSelect(year)
    \/ \E semester \in Semesters : handleSemesterSelect(semester)
    \/ \E mode \in {"thisSemester", "allCourses"} : setViewMode(mode)
    \/ \E value \in Years : setFormYear(value)
    \/ \E value \in Semesters : setFormSemester(value)
    \/ \E form \in FormContents : handleFormSubmit(form)
    \/ \E id \in 1 .. nextId : handleEdit(id)
    \/ handleCancelEdit
    \/ \E id \in 1 .. nextId : handleDelete(id)
    \/ \E i \in 1 .. Len(tasks) : saveCourse(i)
    \/ \E i \in 1 .. Len(tasks) : updateCourseEntry(i)
    \/ \E i \in 1 .. Len(tasks) : deleteCourseEntry(i)
    \/ \E i \in 1 .. Len(tasks) : writeFails(i)
    \/ \E i \in 1 .. Len(tasks) : loadCourses(i)
    \/ \E i \in 1 .. Len(tasks) : loadFails(i)
    \/ \E i \in 1 .. Len(tasks) : submitEditResumes(i)
    \/ \E i \in 1 .. Len(tasks) : submitAddResumes(i)
    \/ \E i \in 1 .. Len(tasks) : deleteResumes(i)

SpecRace == RaceInit /\ [][RaceNext]_vars

-----------------------------------------------------------------------------
(* The functions applied to bounded inputs *)

Thresholds == {40, 50, 55, 60, 65, 70, 75, 80, 85, 90}

\* Whole percentages from -PctBelow to PctAbove, and the values one
\* thousandth below and above each threshold (89.999, 90.001, ...).
Percentages ==
    {[num |-> n, den |-> 1] : n \in (0 - PctBelow) .. PctAbove}
    \cup {[num |-> 1000 * t + d, den |-> 1000] : t \in Thresholds, d \in {-1, 1}}

GradeStrings ==
    DOMAIN letterToNumericTable \cup {"", "B-", "Z", "constructor", "toString"}

CreditValues == {0, 1, 3, 4}

WithCredits(entries) ==
    entries \cup {e @@ [credits |-> c] : e \in entries, c \in CreditValues}

FinalEntries ==
    WithCredits({[entryType |-> "final"]}
                \cup {[entryType |-> "final", finalGrade |-> g] : g \in GradeStrings})

AssignmentValues ==
    LET named == {[name |-> "hw", weight |-> w] : w \in {0, 30, 50}}
    IN  named \cup {a @@ [grade |-> g] : a \in named, g \in {0, 39, 40, 55, 80, 90, 100}}

SeqsUpTo(S, n) == UNION {[1 .. k -> S] : k \in 0 .. n}

ScaleEntries ==
    WithCredits({[entryType |-> "scale"]}
                \cup {[entryType |-> "scale", assignments |-> as] :
                        as \in SeqsUpTo(AssignmentValues, MaxAssignments)})

\* The entries the collections are built from.
CollectionEntries ==
    { [entryType |-> "final", finalGrade |-> "A", credits |-> 3],
      [entryType |-> "final", finalGrade |-> "B", credits |-> 3],
      [entryType |-> "final", finalGrade |-> "A+"],
      [entryType |-> "final", finalGrade |-> "D", credits |-> 0],
      [entryType |-> "final", finalGrade |-> "E", credits |-> 1],
      [entryType |-> "final", finalGrade |-> "", credits |-> 4],
      [entryType |-> "final", finalGrade |-> "constructor", credits |-> 3],
      [entryType |-> "scale", credits |-> 4],
      [entryType |-> "scale", credits |-> 3,
       assignments |-> << [name |-> "hw", weight |-> 50, grade |-> 80],
                          [name |-> "hw", weight |-> 50] >>],
      [entryType |-> "scale", credits |-> 1,
       assignments |-> << [name |-> "hw", weight |-> 30, grade |-> 90] >>] }

\* The entries the charted collections are built from: two years, two
\* semesters, two grades of the table and one string outside it.
ChartEntries ==
    {[entryType |-> "final", finalGrade |-> g, year |-> y, semester |-> m, credits |-> 3] :
        g \in {"A", "C", "constructor"}, y \in {"2024", "2023"}, m \in {"Winter", "Fall"}}

CalcArgs ==
    {[fn |-> "percentageToLetter", p1 |-> p, p2 |-> q] : p \in Percentages, q \in Percentages}
    \cup {[fn |-> "computeEntryNumeric", entry |-> e] : e \in FinalEntries \cup ScaleEntries}
    \cup {[fn |-> "computeAverageCGPA", entries |-> es] :
            es \in SeqsUpTo(CollectionEntries, MaxEntries)}
    \cup {[fn |-> "chartData", entries |-> es] :
            es \in SeqsUpTo(ChartEntries, MaxChartEntries)}

CalcInit ==
    /\ arg \in CalcArgs
    /\ ret = NotCalled
    /\ AppStart

\* percentageToLetter applied to both percentages, each letter then looked up
\* as computeEntryNumeric does (letterToNumeric[computedLetter] ?? 0).
CallPercentageToLetter ==
    /\ arg.fn = "percentageToLetter"
    /\ ret = NotCalled
    /\ ret' = [fn |-> arg.fn,
               letter1 |-> percentageToLetter(arg.p1),
               letter2 |-> percentageToLetter(arg.p2),
               numeric1 |-> OrZero(letterToNumeric(percentageToLetter(arg.p1))),
               numeric2 |-> OrZero(letterToNumeric(percentageToLetter(arg.p2)))]
    /\ UNCHANGED <<arg, appVars>>

CallComputeEntryNumeric ==
    /\ arg.fn = "computeEntryNumeric"
    /\ ret = NotCalled
    /\ ret' = [fn |-> arg.fn, value |-> computeEntryNumeric(arg.entry)]
    /\ UNCHANGED <<arg, appVars>>

CallComputeAverageCGPA ==
    /\ arg.fn = "computeAverageCGPA"
    /\ ret = NotCalled
    /\ ret' = [fn |-> arg.fn, value |-> computeAverageCGPA(arg.entries)]
    /\ UNCHANGED <<arg, appVars>>

\* A render of ChartAnalytics.
CallChartData ==
    /\ arg.fn = "chartData"
    /\ ret = NotCalled
    /\ ret' = [fn |-> arg.fn, value |-> chartData(arg.entries)]
    /\ UNCHANGED <<arg, appVars>>

CalcNext ==
    \/ CallPercentageToLetter
    \/ CallComputeEntryNumeric
    \/ CallComputeAverageCGPA
    \/ CallChartData

SpecCalc == CalcInit /\ [][CalcNext]_vars

-----------------------------------------------------------------------------
(* The stated contracts, written independently of the definitions above *)

StatedLadder ==
    (90 :> "A+") @@ (85 :> "A") @@ (80 :> "A-") @@ (75 :> "B+") @@ (70 :> "B") @@
    (65 :> "C+") @@ (60 :> "C") @@ (55 :> "D+") @@ (50 :> "D") @@ (40 :> "E")

StatedTable ==
    ("A+" :> 10) @@ ("A" :> 9) @@ ("A-" :> 8) @@ ("B+" :> 7) @@ ("B" :> 6) @@
    ("C+" :> 5) @@ ("C" :> 4) @@ ("D+" :> 3) @@ ("D" :> 2) @@ ("E" :> 1) @@
    ("F" :> 0) @@ ("ABS" :> 0) @@ ("EIN" :> 0)

\* The letter of the highest lower bound that p reaches, F when it reaches none.
StatedLetter(p) ==
    LET met == {t \in DOMAIN StatedLadder : p.num >= t * p.den}
    IN  IF met = {} THEN "F"
        ELSE StatedLadder[CHOOSE t \in met : \A u \in met : u <= t]

StatedTableValue(letter) ==
    IF letter \in DOMAIN StatedTable THEN StatedTable[letter] ELSE 0

\* Sum of f[i] over i in 1..n.
RECURSIVE SumTo(_, _)
SumTo(f, n) == IF n = 0 THEN 0 ELSE f[n] + SumTo(f, n - 1)

StatedAssignments(entry) ==
    IF "assignments" \in DOMAIN entry THEN entry.assignments ELSE <<>>

StatedTotalWeight(entry) ==
    LET as == StatedAssignments(entry)
    IN  SumTo([i \in 1 .. Len(as) |-> as[i].weight], Len(as))

StatedWeightedSum(entry) ==
    LET as == StatedAssignments(entry)
    IN  SumTo([i \in 1 .. Len(as) |->
                 IF "grade" \in DOMAIN as[i] THEN as[i].grade * as[i].weight ELSE 0],
              Len(as))

StatedScaleValue(entry) ==
    IF StatedTotalWeight(entry) > 0
    THEN StatedTableValue(StatedLetter([num |-> StatedWeightedSum(entry),
                                        den |-> StatedTotalWeight(entry)]))
    ELSE 0

\* C1: percentageToLetter returns, for every percentage (negative and above
\* 100 included), the letter of the highest inclusive lower bound it reaches
\* (90 A+, 85 A, 80 A-, 75 B+, 70 B, 65 C+, 60 C, 55 D+, 50 D, 40 E) and F
\* below 40.
C1_ThresholdLadder ==
    ret.fn = "percentageToLetter" =>
        /\ ret.letter1 = StatedLetter(arg.p1)
        /\ ret.letter2 = StatedLetter(arg.p2)

\* 89.999 maps to A and 90 to A+.
C1_Witness ==
    /\ ret.fn = "percentageToLetter"
    /\ arg.p1 = [num |-> 89999, den |-> 1000] /\ ret.letter1 = "A"
    /\ arg.p2 = [num |-> 90, den |-> 1] /\ ret.letter2 = "A+"

\* C2: for percentages p1 <= p2 the numeric value of p1's letter is at most
\* the numeric value of p2's letter.
C2_Monotonic ==
    (ret.fn = "percentageToLetter"
        /\ arg.p1.num * arg.p2.den <= arg.p2.num * arg.p1.den)
    => ret.numeric1.value <= ret.numeric2.value

\* 64.999 <= 65 with values 4 (C) and 5 (C+).
C2_Witness ==
    /\ ret.fn = "percentageToLetter"
    /\ arg.p1 = [num |-> 64999, den |-> 1000] /\ ret.numeric1 = Number(4)
    /\ arg.p2 = [num |-> 65, den |-> 1] /\ ret.numeric2 = Number(5)

\* C3: for a "final" entry computeEntryNumeric returns the table value of
\* finalGrade, an absent or empty finalGrade counting as "F" and every string
\* outside the table giving the number 0.
C3_FinalTableValue ==
    (ret.fn = "computeEntryNumeric" /\ arg.entry.entryType = "final")
    => ret.value =
         Number(StatedTableValue(
            IF "finalGrade" \in DOMAIN arg.entry /\ arg.entry.finalGrade # ""
            THEN arg.entry.finalGrade ELSE "F"))

\* C4: for a "scale" entry computeEntryNumeric returns the table value of the
\* letter of (sum of grade * weight, an absent grade as 0) / (sum of all
\* weights), and 0 when the assignments are absent, empty or of total weight 0.
C4_ScaleValue ==
    (ret.fn = "computeEntryNumeric" /\ arg.entry.entryType = "scale")
    => ret.value = Number(StatedScaleValue(arg.entry))

\* Weights 50/50 with grades 80 and absent: average 40, letter E, value 1.
C4_Witness ==
    /\ ret.fn = "computeEntryNumeric"
    /\ arg.entry.entryType = "scale"
    /\ "assignments" \in DOMAIN arg.entry
    /\ arg.entry.assignments = << [name |-> "hw", weight |-> 50, grade |-> 80],
                                  [name |-> "hw", weight |-> 50] >>
    /\ ret.value = Number(1)

DigitChars == {"0", "1", "2", "3", "4", "5", "6", "7", "8", "9"}

DigitValue(c) == CHOOSE d \in 0 .. 9 : Digits(d) = <<c>>

\* A decimal numeral with exactly two fractional digits: digits, ".", two digits.
IsTwoDecimalString(s) ==
    /\ Len(s) >= 4
    /\ s[Len(s) - 2] = "."
    /\ \A i \in 1 .. Len(s) : i # Len(s) - 2 => s[i] \in DigitChars

\* The value of such a numeral, in hundredths.
RECURSIVE DigitsValue(_)
DigitsValue(s) ==
    IF s = <<>> THEN 0
    ELSE 10 * DigitsValue(SubSeq(s, 1, Len(s) - 1)) + DigitValue(s[Len(s)])

Hundredths(s) ==
    DigitsValue(SubSeq(s, 1, Len(s) - 3) \o SubSeq(s, Len(s) - 1, Len(s)))

StatedCredits(entry) ==
    IF "credits" \in DOMAIN entry /\ entry.credits # 0 THEN entry.credits ELSE 3

\* C5: computeAverageCGPA returns "N/A" exactly for the empty collection and
\* a numeric string for every non-empty one.
C5_SentinelIffEmpty ==
    ret.fn = "computeAverageCGPA" =>
        /\ (ret.value = <<"N", "/", "A">>) <=> (arg.entries = <<>>)
        /\ arg.entries # <<>> => IsTwoDecimalString(ret.value)

\* C6: for a non-empty collection computeAverageCGPA returns
\* (sum of computeEntryNumeric * credits) / (sum of credits), credits being 3
\* when absent or 0, as a numeral with exactly two fractional digits (the
\* nearest hundredth of the quotient).
C6_CreditWeightedMean ==
    (ret.fn = "computeAverageCGPA" /\ arg.entries # <<>>) =>
        /\ IsTwoDecimalString(ret.value)
        /\ LET n == Len(arg.entries)
               points == SumTo([i \in 1 .. n |->
                                  computeEntryNumeric(arg.entries[i]).value
                                  * StatedCredits(arg.entries[i])], n)
               credits == SumTo([i \in 1 .. n |-> StatedCredits(arg.entries[i])], n)
               diff == 2 * (Hundredths(ret.value) * credits - 100 * points)
           IN  diff <= credits /\ 0 - diff <= credits

\* The positions at which a term occurs for the first time, in order.
StatedFirsts(entries) ==
    LET sameTerm(i, j) == /\ entries[i].year = entries[j].year
                          /\ entries[i].semester = entries[j].semester
        firsts == {i \in 1 .. Len(entries) : \A j \in 1 .. i - 1 : ~sameTerm(i, j)}
    IN  [k \in 1 .. Cardinality(firsts) |->
            CHOOSE i \in firsts : Cardinality({j \in firsts : j < i}) = k - 1]

\* The entries of the term of entries[i].
StatedTermEntries(entries, i) ==
    SelectSeq(entries, LAMBDA e : e.year = entries[i].year
                                  /\ e.semester = entries[i].semester)

\* C11: the chart has one label "<year> <semester>" per distinct term, in the
\* order the terms are first met in the collection, then the label "Overall";
\* the series is as long as the labels, each term's value is
\* computeAverageCGPA of exactly that term's entries, and the last value is
\* the overall CGPA, 0 when that is "N/A".
C11_ChartData ==
    ret.fn = "chartData" =>
        LET entries == arg.entries
            firsts == StatedFirsts(entries)
            n == Len(firsts)
        IN  /\ Len(ret.value.labels) = n + 1
            /\ Len(ret.value.data) = n + 1
            /\ \A k \in 1 .. n :
                  /\ ret.value.labels[k] = entries[firsts[k]].year \o " "
                                           \o entries[firsts[k]].semester
                  /\ ret.value.data[k] =
                        parseFloat(computeAverageCGPA(StatedTermEntries(entries, firsts[k])))
            /\ ret.value.labels[n + 1] = "Overall"
            /\ ret.value.data[n + 1] =
                  IF entries = <<>> THEN Number([num |-> 0, den |-> 1])
                  ELSE parseFloat(computeAverageCGPA(entries))

\* 2024 Fall (A), 2023 Winter (C), 2024 Fall (C): labels in encounter order,
\* values 6.50, 4.00 and overall 5.67.
C11_Witness ==
    /\ ret.fn = "chartData"
    /\ Len(arg.entries) = 3
    /\ ret.value.labels = <<"2024 Fall", "2023 Winter", "Overall">>
    /\ ret.value.data = << Number([num |-> 650, den |-> 100]),
                           Number([num |-> 400, den |-> 100]),
                           Number([num |-> 567, den |-> 100]) >>

-----------------------------------------------------------------------------
(* The stated behaviour of App *)

\* C7: for every entry shown in the course table, computeEntryNumeric equals
\* the table value of the letter its row displays (finalGrade for a "final"
\* entry, the letter of the row's average for a "scale" entry).
C7_RowLetterAgrees ==
    SectionsShown =>
        \A k \in 1 .. Len(entriesToShow) :
            computeEntryNumeric(entriesToShow[k])
              = Number(StatedTableValue(RowLetter(entriesToShow[k])))

\* The table shows a "final" row and a "scale" row whose average 80 gives A-.
C7_Witness ==
    /\ SectionsShown
    /\ \E k \in 1 .. Len(entriesToShow) :
          /\ entriesToShow[k].entryType = "final"
          /\ computeEntryNumeric(entriesToShow[k]) = Number(9)
    /\ \E k \in 1 .. Len(entriesToShow) :
          /\ entriesToShow[k].entryType = "scale"
          /\ RowComputedGrade(entriesToShow[k])
                = <<"8", "0", ".", "0", "0", "%", " ", "(", "A-", ")">>
          /\ computeEntryNumeric(entriesToShow[k]) = Number(8)

\* The reloaded collection of a handler shows the handler's own mutation.
ShowsMutation(t) ==
    CASE t.kind = "add" ->
            \E k \in 1 .. Len(t.courses) :
                \A f \in DOMAIN t.entry :
                    f \in DOMAIN t.courses[k] /\ t.courses[k][f] = t.entry[f]
      [] t.kind = "edit" ->
            \E k \in 1 .. Len(t.courses) :
                /\ t.courses[k].id = t.id
                /\ \A f \in DOMAIN t.entry : t.courses[k][f] = t.entry[f]
      [] t.kind = "delete" ->
            \A k \in 1 .. Len(t.courses) : t.courses[k].id # t.id
      [] OTHER -> TRUE

C9_FailedCallKeepsData ==
    [][\A i \in 1 .. Len(tasks) :
          (/\ tasks[i].kind \in {"add", "edit", "delete"}
           /\ tasks[i].pc = "set"
           /\ ~tasks[i].wrote
           /\ tasks' = RemoveAt(tasks, i))
          => progressData' = tasks[i].before]_vars

\* C10: every stored entry has finalGrade exactly when its entryType is
\* "final" and assignments exactly when its entryType is "scale".
C10_OneGradeForm ==
    \A id \in DOMAIN store :
        /\ ("finalGrade" \in DOMAIN store[id]) <=> (store[id].entryType = "final")
        /\ ("assignments" \in DOMAIN store[id]) <=> (store[id].entryType = "scale")

\* The awaited call of a handler after the one named by pc.
StatedNextCall(pc) == IF pc = "write" THEN "load" ELSE "set"

\* C12: within one user action (add, edit, confirmed delete) the steps run one
\* after another.  The handler starts at its mutating call and changes nothing
\* in memory; the reload starts only when the mutating call has finished and
\* it returns only after that; progressData is replaced, by the reload's
\* result, only in the step in which a handler whose reload has returned
\* resumes, and only in that step does a submission clear the form and an
\* edit leave editing mode.
C12_OneStepAfterAnother ==
    [][/\ Len(tasks') = Len(tasks) + 1 =>
            /\ tasks'[Len(tasks')].pc = "write"
            /\ \A k \in 1 .. Len(tasks) : tasks'[k] = tasks[k]
            /\ UNCHANGED <<progressData, formVars, editVars>>
       /\ (Len(tasks') = Len(tasks) /\ tasks' # tasks) =>
            /\ \E i \in 1 .. Len(tasks) :
                  /\ tasks[i].pc \in {"write", "load"}
                  /\ tasks'[i].pc = StatedNextCall(tasks[i].pc)
                  /\ \A k \in 1 .. Len(tasks) : k # i => tasks'[k].pc = tasks[k].pc
            /\ UNCHANGED <<progressData, formVars, editVars>>
       /\ Len(tasks') = Len(tasks) - 1 =>
            \E i \in 1 .. Len(tasks) :
                /\ tasks[i].pc = "set"
                /\ tasks' = RemoveAt(tasks, i)
                /\ progressData' = tasks[i].courses
                /\ tasks[i].kind \in {"add", "edit"} => formYear' = "" /\ formSemester' = ""
                /\ tasks[i].kind = "edit" => ~isEditing' /\ editId' = NoId
       /\ progressData' # progressData => Len(tasks') = Len(tasks) - 1
       /\ Len(tasks') \in {Len(tasks) - 1, Len(tasks), Len(tasks) + 1}
      ]_vars

\* An edit submission has run to its end: the stored record of an earlier
\* session, shown with the type the edit gave it, the form cleared and
\* editing mode left.
C12_Witness ==
    /\ tasks = <<>>
    /\ Len(progressData) = 1
    /\ progressData[1].id = 1 /\ progressData[1].entryType = "scale"
    /\ ~isEditing /\ editId = NoId
    /\ formYear = "" /\ formSemester = ""

\* C13: when two user actions have been started one right after the other and
\* both have run to their end, each after a reload that succeeded, progressData
\* equals the contents of the store.
C13_RaceEndsAtStore ==
    (tasks = <<>> /\ ops = 0 /\ ended = MaxOps + 1) => progressData = Listing(store)

\* C14: in every state isEditing is true exactly when editId is not null.
C14_EditingIffTarget == isEditing <=> editId # NoId

\* The form is in editing mode while the submission of an edit is in flight.
C14_Witness ==
    /\ isEditing /\ editId # NoId
    /\ \E i \in 1 .. Len(tasks) : tasks[i].kind = "edit" /\ tasks[i].id = editId

\* C15: whenever the form is in editing mode, editId is the id of an entry of
\* progressData.
C15_EditTargetInCollection ==
    isEditing => \E k \in 1 .. Len(progressData) : progressData[k].id = editId

\* C16: a selected semester implies a selected year.
C16_SemesterNeedsYear == selectedSemester # "" => selectedYear # ""

\* handleEdit has selected the term of the edited entry.
C16_Witness ==
    /\ isEditing
    /\ \E k \in 1 .. Len(progressData) :
          /\ progressData[k].id = editId
          /\ selectedYear = progressData[k].year
          /\ selectedSemester = progressData[k].semester
          /\ selectedSemester # ""

====
